---- MODULE Spec2Model ----
(***************************************************************************)
(* Round scheduling and pairing engine of gaspadel (lib/scheduler), with   *)
(* the part of the session store (lib/store) that edits the roster and the *)
(* schedule between two calls of the scheduler.                            *)
(*                                                                         *)
(* Arrays are sequences.  A player is a record                             *)
(*   [id, status, gender, skill, gamesPlayed, sitOutCount, totalPoints,    *)
(*    wins]                                                                *)
(* a match is [court, teamA, teamB, status, score] with teamA and teamB    *)
(* the playerIds arrays, and a round is [roundNumber, matches, sittingOut].*)
(* Match ids are random nine-character strings that the scheduler never    *)
(* reads; a match is identified by its round number and court.             *)
(* Math.random is a nondeterministic choice: an operator that draws random *)
(* numbers denotes the set of all values it can return.                    *)
(***************************************************************************)
EXTENDS Integers, Sequences, FiniteSets, TLC

\* ------------------------------------------------------------------ bounds
NumPlayers == 4
RoundPlayers == 5
MaxRounds == 2
MaxCourts == 1
MaxCalls == 2
MaxEdits == 2
RandomLevels == 2
MaxPrior == 2
CourtPlayers == 8
WideCourts == 3
\* one-pass schedules: roster size, rounds, and active players x rounds
PassPlayers == 5
PassRounds == 3
PassLoad == 12

\* ------------------------------------------------------- program constants
Infinity == -1
PartnerWeight == 10
OpponentWeight == 5
RepeatPenalty == 1000
SkillWeight == 2
DefaultSkill == 3
MinAttempts == 5
MaxAttempts == 20
SkillMinAttempts == 10
SkillMaxAttempts == 30
PointsPerMatch == 21

Algorithms == {"americano", "mexicano", "mix_americano", "skill_americano"}

\* ------------------------------------------------------------ array helpers
Min(a, b) == IF a < b THEN a ELSE b
Max(a, b) == IF a < b THEN b ELSE a

\* arr.slice(start, end) with 0-based start and exclusive end, clipped
Slice(arr, start, end) ==
  LET lo == Min(Max(start, 0), Len(arr))
      hi == Min(Max(end, lo), Len(arr))
  IN  [i \in 1..(hi - lo) |-> arr[lo + i]]

SliceFrom(arr, start) == Slice(arr, start, Len(arr))

\* arr.filter(Test)
Filter(arr, Test(_)) == SelectSeq(arr, Test)

\* arr.map(p => p.id)
Ids(arr) == [i \in 1..Len(arr) |-> arr[i].id]

Range(arr) == {arr[i] : i \in 1..Len(arr)}

RECURSIVE Flatten(_)
Flatten(seqs) ==
  IF Len(seqs) = 0 THEN <<>> ELSE Head(seqs) \o Flatten(Tail(seqs))

\* Array.prototype.sort with a consistent comparator: a stable sort.
\* Before(a, b) is "compare(a, b) < 0"; the element at index i comes after
\* every element that compares before it and every earlier element it ties with.
StableSort(arr, Before(_, _)) ==
  LET n == Len(arr)
      rank(i) == Cardinality({j \in 1..n :
                    \/ Before(arr[j], arr[i])
                    \/ ~Before(arr[i], arr[j]) /\ j < i})
  IN  [k \in 1..n |-> arr[CHOOSE i \in 1..n : rank(i) = k - 1]]

\* Math.random() is one of 0/RandomLevels, 1/RandomLevels, ...; Draws is the
\* set of numerators it can return
Draws == 0..(RandomLevels - 1)

Swap(a, i, j) == [a EXCEPT ![i] = a[j], ![j] = a[i]]

\* shuffle(arr): Fisher-Yates over a copy, i from length - 1 down to 1 and
\* j = floor(Math.random() * (i + 1)) (0-based); draws[i] is the draw at index i
RECURSIVE FisherYates(_, _, _)
FisherYates(a, i, draws) ==
  IF i < 1 THEN a
  ELSE LET j == (draws[i] * (i + 1)) \div RandomLevels
       IN  FisherYates(Swap(a, i + 1, j + 1), i - 1, draws)

Shuffle(arr) ==
  {FisherYates(arr, Len(arr) - 1, draws) : draws \in [1..(Len(arr) - 1) -> Draws]}

IndexPermutations(n) == {f \in [1..n -> 1..n] : \A i, j \in 1..n : f[i] = f[j] => i = j}

\* [...active].sort(cmp) where cmp answers Math.random() - 0.5 on a tie:
\* every order that never puts b before a when compare(a, b) < 0
RandomTieSort(arr, Before(_, _)) ==
  {s \in {[i \in 1..Len(arr) |-> arr[f[i]]] : f \in IndexPermutations(Len(arr))} :
     \A i, j \in 1..Len(s) : i < j => ~Before(s[j], s[i])}

\* ------------------------------------------------------------------- keys
\* pairKey(a, b): the two ids, smaller first
\* mutant: the two ids are not put in order
pairKeyUnordered(a, b) == <<a, b>>

pairKey(a, b) == IF a < b THEN <<a, b>> ELSE <<b, a>>

\* mutant: the ids are not sorted
matchupKeyUnsorted(ids) == ids

\* matchupKey(ids): the ids sorted
matchupKey(ids) == StableSort(ids, LAMBDA a, b : a < b)

\* --------------------------------------------------------------- history
MatchSlots(rounds) ==
  UNION {{<<r, m>> : m \in 1..Len(rounds[r].matches)} : r \in 1..Len(rounds)}

IndexPairs(ids) == {p \in (1..Len(ids)) \X (1..Len(ids)) : p[1] < p[2]}

\* one entry per partnerCount.set executed by buildHistory, with its key
PartnerHits(rounds) ==
  UNION {LET match == rounds[s[1]].matches[s[2]]
             aIds == match.teamA
             bIds == match.teamB
         IN  {<<s, "A", p, pairKey(aIds[p[1]], aIds[p[2]])>> : p \in IndexPairs(aIds)}
             \cup
             {<<s, "B", p, pairKey(bIds[p[1]], bIds[p[2]])>> : p \in IndexPairs(bIds)}
        : s \in MatchSlots(rounds)}

\* one entry per opponentCount.set executed by buildHistory, with its key
OpponentHits(rounds) ==
  UNION {LET match == rounds[s[1]].matches[s[2]]
             aIds == match.teamA
             bIds == match.teamB
         IN  {<<s, p, pairKey(aIds[p[1]], bIds[p[2]])>> :
                p \in (1..Len(aIds)) \X (1..Len(bIds))}
        : s \in MatchSlots(rounds)}

\* one entry per sitOutCounts.set executed in the rounds loop, with its id
SitOutHits(rounds) ==
  UNION {{<<r, i, rounds[r].sittingOut[i]>> : i \in 1..Len(rounds[r].sittingOut)}
        : r \in 1..Len(rounds)}

CountKey(hits, k) == Cardinality({h \in hits : h[Len(h)] = k})

buildHistory(players, rounds) ==
  LET ph == PartnerHits(rounds)
      oh == OpponentHits(rounds)
      sh == SitOutHits(rounds)
      seeded == {players[i].id : i \in 1..Len(players)}
      \* players.forEach(p => sitOutCounts.set(p.id, ...)): the last record of an id wins
      seed(id) == LET idx == {i \in 1..Len(players) : players[i].id = id}
                      last == CHOOSE i \in idx : \A j \in idx : j <= i
                  IN  players[last].sitOutCount
  IN  [partnerCount |-> [k \in {h[4] : h \in ph} |-> CountKey(ph, k)],
       opponentCount |-> [k \in {h[3] : h \in oh} |-> CountKey(oh, k)],
       matchupSet |-> {LET match == rounds[s[1]].matches[s[2]]
                       IN  matchupKey(match.teamA \o match.teamB)
                       : s \in MatchSlots(rounds)},
       sitOutCounts |->
         [id \in seeded \cup {h[3] : h \in sh} |->
            (IF id \in seeded THEN seed(id) ELSE 0) + CountKey(sh, id)]]

\* map.get(k) || 0
Get(map, k) == IF k \in DOMAIN map THEN map[k] ELSE 0

\* ------------------------------------------------------ player selection
\* mutant: only removed players are left out
IsNotRemoved(p) == p.status # "removed"

IsActive(p) == p.status = "active"

\* mutant: the players with the most games played come first
PriorityBeforeMostGames(history, a, b) ==
  LET gDiff == b.gamesPlayed - a.gamesPlayed
      sDiff == Get(history.sitOutCounts, b.id) - Get(history.sitOutCounts, a.id)
  IN  IF gDiff # 0 THEN gDiff < 0 ELSE sDiff < 0

\* mutant: the sit-out counts are not compared
PriorityBeforeGamesOnly(history, a, b) == a.gamesPlayed - b.gamesPlayed < 0

\* compare(a, b) < 0 in selectPlayersForRound and sortByPriority, ties apart
PriorityBefore(history, a, b) ==
  LET gDiff == a.gamesPlayed - b.gamesPlayed
      sDiff == Get(history.sitOutCounts, b.id) - Get(history.sitOutCounts, a.id)
  IN  IF gDiff # 0 THEN gDiff < 0 ELSE sDiff < 0

\* the set of { playing, sittingOut } results selectPlayersForRound can return
selectPlayersForRound(players, courts, history) ==
  LET active == Filter(players, IsActive)
      playersNeeded == courts * 4
  IN  IF Len(active) <= playersNeeded
      THEN {[playing |-> active, sittingOut |-> <<>>]}
      ELSE {[playing |-> Slice(sorted, 0, playersNeeded),
             sittingOut |-> Ids(SliceFrom(sorted, playersNeeded))]
            : sorted \in RandomTieSort(active,
                           LAMBDA a, b : PriorityBefore(history, a, b))}

selectPlayersForMixRound(players, courts, history) ==
  LET active == Filter(players, IsActive)
      males == Filter(active, LAMBDA p : p.gender = "M")
      females == Filter(active, LAMBDA p : p.gender = "F")
      malesNeeded == courts * 2
      femalesNeeded == courts * 2
      sortByPriority(arr) ==
        StableSort(arr, LAMBDA a, b : PriorityBefore(history, a, b))
      playingMales == Slice(sortByPriority(males), 0, malesNeeded)
      playingFemales == Slice(sortByPriority(females), 0, femalesNeeded)
      playing == playingMales \o playingFemales
      playingIds == Range(Ids(playing))
  IN  [playing |-> playing,
       sittingOut |-> Ids(Filter(active, LAMBDA p : p.id \notin playingIds))]

\* ------------------------------------------------------- pairing engine
\* mutant: the opponent loop runs over the first player of teamA only
scoreAmericanoPairingFirstOpponent(teamA, teamB, history) ==
  Get(history.partnerCount, pairKey(teamA[1], teamA[2])) * PartnerWeight
  + Get(history.partnerCount, pairKey(teamB[1], teamB[2])) * PartnerWeight
  + Get(history.opponentCount, pairKey(teamA[1], teamB[1])) * OpponentWeight
  + Get(history.opponentCount, pairKey(teamA[1], teamB[2])) * OpponentWeight
  + (IF matchupKey(teamA \o teamB) \in history.matchupSet
     THEN RepeatPenalty ELSE 0)

scoreAmericanoPairing(teamA, teamB, history) ==
  Get(history.partnerCount, pairKey(teamA[1], teamA[2])) * PartnerWeight
  + Get(history.partnerCount, pairKey(teamB[1], teamB[2])) * PartnerWeight
  + Get(history.opponentCount, pairKey(teamA[1], teamB[1])) * OpponentWeight
  + Get(history.opponentCount, pairKey(teamA[1], teamB[2])) * OpponentWeight
  + Get(history.opponentCount, pairKey(teamA[2], teamB[1])) * OpponentWeight
  + Get(history.opponentCount, pairKey(teamA[2], teamB[2])) * OpponentWeight
  + (IF matchupKey(teamA \o teamB) \in history.matchupSet
     THEN RepeatPenalty ELSE 0)

\* mutant: the second split written [a, c, c, d]
SplitsTypo(four) ==
  << [teamA |-> <<four[1], four[2]>>, teamB |-> <<four[3], four[4]>>],
     [teamA |-> <<four[1], four[3]>>, teamB |-> <<four[3], four[4]>>],
     [teamA |-> <<four[1], four[4]>>, teamB |-> <<four[2], four[3]>>] >>

\* the three 2v2 splits of [a, b, c, d], in the order the code tries them
Splits(four) ==
  << [teamA |-> <<four[1], four[2]>>, teamB |-> <<four[3], four[4]>>],
     [teamA |-> <<four[1], four[3]>>, teamB |-> <<four[2], four[4]>>],
     [teamA |-> <<four[1], four[4]>>, teamB |-> <<four[2], four[3]>>] >>

\* mutant: the comparison of the split search turned around
LessThanFlipped(s, bestScore) == bestScore = Infinity \/ s > bestScore

\* s < bestScore, with bestScore starting at Infinity
LessThan(s, bestScore) == bestScore = Infinity \/ s < bestScore

\* the loop "for (split of splits) if (s < bestScore) { best = split }"
BestOf(splits, Score(_, _)) ==
  LET after[i \in 0..Len(splits)] ==
        IF i = 0 THEN [teamA |-> splits[1].teamA, teamB |-> splits[1].teamB,
                       score |-> Infinity]
        ELSE LET s == Score(splits[i].teamA, splits[i].teamB)
             IN  IF LessThan(s, after[i - 1].score)
                 THEN [teamA |-> splits[i].teamA, teamB |-> splits[i].teamB,
                       score |-> s]
                 ELSE after[i - 1]
  IN  after[Len(splits)]

\* mutant: the first split is returned without a search
bestAmericanoPairingFirstSplit(fourIds, history) ==
  [teamA |-> <<fourIds[1], fourIds[2]>>, teamB |-> <<fourIds[3], fourIds[4]>>]

bestAmericanoPairing(fourIds, history) ==
  LET splits == Splits(fourIds)
      b == BestOf(splits, LAMBDA x, y : scoreAmericanoPairing(x, y, history))
  IN  [teamA |-> b.teamA, teamB |-> b.teamB]

\* mutant: the sign of the score is turned, so the higher-scoring option wins
scoreMixPairingNegated(teamA, teamB, history) ==
  0 - scoreAmericanoPairing(teamA, teamB, history)

scoreMixPairing(teamA, teamB, history) == scoreAmericanoPairing(teamA, teamB, history)

\* playerMap.get(id)?.skill || 3
SkillOf(playing, id) ==
  LET idx == {i \in 1..Len(playing) : playing[i].id = id}
  IN  IF idx = {} THEN DefaultSkill
      ELSE LET last == CHOOSE i \in idx : \A j \in idx : j <= i
           IN  IF playing[last].skill = 0 THEN DefaultSkill ELSE playing[last].skill

Abs(x) == IF x < 0 THEN -x ELSE x

scoreSkillPairing(teamA, teamB, playing, history) ==
  LET skillA == SkillOf(playing, teamA[1]) + SkillOf(playing, teamA[2])
      skillB == SkillOf(playing, teamB[1]) + SkillOf(playing, teamB[2])
      gap == Abs(skillA - skillB)
  IN  scoreAmericanoPairing(teamA, teamB, history) + gap * SkillWeight

\* the split search inlined in generateSkillAmericanoRound and reshuffleMatch
bestSkillPairing(fourIds, playing, history) ==
  LET splits == Splits(fourIds)
  IN  BestOf(splits, LAMBDA x, y : scoreSkillPairing(x, y, playing, history))

\* mutant: every match is put on court 1
NewMatchCourtOne(court, teamA, teamB) ==
  [court |-> 1, teamA |-> teamA, teamB |-> teamB, status |-> "upcoming",
   score |-> <<>>]

NewMatch(court, teamA, teamB) ==
  [court |-> court, teamA |-> teamA, teamB |-> teamB,
   status |-> "upcoming", score |-> <<>>]

\* ------------------------------------------------------- round generators
\* the court loop of one grouping attempt: groups of four in court order,
\* stopping at the first short group; Pair(group) is the split search
CourtLoop(shuffled, courts, Pair(_)) ==
  LET from[court \in 1..(courts + 1)] ==
        IF court > courts THEN [matches |-> <<>>, totalScore |-> 0]
        ELSE LET start == (court - 1) * 4
                 group == Slice(shuffled, start, start + 4)
             IN  IF Len(group) < 4 THEN [matches |-> <<>>, totalScore |-> 0]
                 ELSE LET pairing == Pair(group)
                          rest == from[court + 1]
                      IN  [matches |->
                             <<NewMatch(court, pairing.teamA, pairing.teamB)>>
                             \o rest.matches,
                           totalScore |-> pairing.score + rest.totalScore]
  IN  from[1]

\* the attempt loop: every attempt draws a grouping, the first one with the
\* lowest total is kept.  after[k] is the set of (bestMatches, bestTotalScore)
\* the loop can hold once k attempts are done.
\* what a run of the loop has seen, kept beside the loop's own variables: the
\* totals of the attempts made and the first attempt with the lowest of them
Seen(b, c) ==
  [totals |-> b.seen.totals \cup {c.totalScore},
   first |-> IF b.seen.totals = {} \/ \A t \in b.seen.totals : c.totalScore < t
             THEN c.matches ELSE b.seen.first]

\* mutant: only the first attempt is ever kept
AttemptRunsFirst(candidates, attempts) ==
  LET after[k \in 0..attempts] ==
        IF k = 0 THEN {[matches |-> <<>>, totalScore |-> Infinity,
                        seen |-> [totals |-> {}, first |-> <<>>]]}
        ELSE {[matches |-> IF b.totalScore = Infinity
                           THEN c.matches ELSE b.matches,
               totalScore |-> IF b.totalScore = Infinity
                              THEN c.totalScore ELSE b.totalScore,
               seen |-> Seen(b, c)] :
                b \in after[k - 1], c \in candidates}
  IN  after[attempts]

\* the runs of the attempt loop: bestMatches and bestTotalScore at its end
AttemptRuns(candidates, attempts) ==
  LET after[k \in 0..attempts] ==
        IF k = 0 THEN {[matches |-> <<>>, totalScore |-> Infinity,
                        seen |-> [totals |-> {}, first |-> <<>>]]}
        ELSE {[matches |-> IF LessThan(c.totalScore, b.totalScore)
                           THEN c.matches ELSE b.matches,
               totalScore |-> IF LessThan(c.totalScore, b.totalScore)
                              THEN c.totalScore ELSE b.totalScore,
               seen |-> Seen(b, c)] :
                b \in after[k - 1], c \in candidates}
  IN  after[attempts]

AttemptLoop(candidates, attempts) ==
  {b.matches : b \in AttemptRuns(candidates, attempts)}

\* the candidates and the attempt count of generateAmericanoRound
AmericanoAttempts(playing, courts, history) ==
  LET Pair(group) ==
        LET best == bestAmericanoPairing(group, history)
        IN  [teamA |-> best.teamA, teamB |-> best.teamB,
             score |-> scoreAmericanoPairing(best.teamA, best.teamB, history)]
  IN  [candidates |-> {CourtLoop(shuffled, courts, Pair) :
                         shuffled \in Shuffle(Ids(playing))},
       attempts |-> Min(MaxAttempts, Max(MinAttempts, Len(playing)))]

generateAmericanoRound(playing, courts, history) ==
  LET loop == AmericanoAttempts(playing, courts, history)
  IN  AttemptLoop(loop.candidates, loop.attempts)

\* compare(a, b) < 0 of the standings sort: points descending, then wins
StandingsBefore(a, b) ==
  LET ptsDiff == b.totalPoints - a.totalPoints
  IN  IF ptsDiff # 0 THEN ptsDiff < 0 ELSE b.wins - a.wins < 0

\* mutant: every round is drawn as the first round is
generateMexicanoRoundShuffled(playing, courts, history, isFirstRound) ==
  generateAmericanoRound(playing, courts, history)

generateMexicanoRound(playing, courts, history, isFirstRound) ==
  IF isFirstRound THEN generateAmericanoRound(playing, courts, history)
  ELSE LET sorted == StableSort(playing, StandingsBefore)
           Pair(group) == [teamA |-> <<group[1].id, group[4].id>>,
                           teamB |-> <<group[2].id, group[3].id>>,
                           score |-> 0]
       IN  {CourtLoop(sorted, courts, Pair).matches}

\* mutant: a filled court pairs the two males against the two females
MixCourtSameGender(males, females, court, history) ==
  LET mStart == (court - 1) * 2
      courtMales == Slice(males, mStart, mStart + 2)
      courtFemales == Slice(females, mStart, mStart + 2)
  IN  IF Len(courtMales) < 2 \/ Len(courtFemales) < 2
      THEN LET remaining == SliceFrom(males, mStart) \o SliceFrom(females, mStart)
           IN  IF Len(remaining) >= 4
               THEN LET best == bestAmericanoPairing(Ids(Slice(remaining, 0, 4)), history)
                    IN  <<NewMatch(court, best.teamA, best.teamB)>>
               ELSE <<>>
      ELSE <<NewMatch(court, Ids(courtMales), Ids(courtFemales))>>

\* the body of the court loop of generateMixAmericanoRound: the matches it pushes
MixCourt(males, females, court, history) ==
  LET mStart == (court - 1) * 2
      fStart == (court - 1) * 2
      courtMales == Slice(males, mStart, mStart + 2)
      courtFemales == Slice(females, fStart, fStart + 2)
  IN  IF Len(courtMales) < 2 \/ Len(courtFemales) < 2
      THEN LET remaining == SliceFrom(males, mStart) \o SliceFrom(females, fStart)
           IN  IF Len(remaining) >= 4
               THEN LET best == bestAmericanoPairing(Ids(Slice(remaining, 0, 4)), history)
                    IN  <<NewMatch(court, best.teamA, best.teamB)>>
               ELSE <<>>
      ELSE LET m == Ids(courtMales)
               f == Ids(courtFemales)
               option1 == [teamA |-> <<m[1], f[1]>>, teamB |-> <<m[2], f[2]>>]
               option2 == [teamA |-> <<m[1], f[2]>>, teamB |-> <<m[2], f[1]>>]
               s1 == scoreMixPairing(option1.teamA, option1.teamB, history)
               s2 == scoreMixPairing(option2.teamA, option2.teamB, history)
               best == IF s1 <= s2 THEN option1 ELSE option2
           IN  <<NewMatch(court, best.teamA, best.teamB)>>

generateMixAmericanoRound(playing, courts, history) ==
  {Flatten([court \in 1..courts |-> MixCourt(males, females, court, history)]) :
     males \in Shuffle(Filter(playing, LAMBDA p : p.gender = "M")),
     females \in Shuffle(Filter(playing, LAMBDA p : p.gender = "F"))}

\* the candidates and the attempt count of generateSkillAmericanoRound
SkillAttempts(playing, courts, history) ==
  LET Pair(group) == bestSkillPairing(group, playing, history)
  IN  [candidates |-> {CourtLoop(shuffled, courts, Pair) :
                         shuffled \in Shuffle(Ids(playing))},
       attempts |-> Min(SkillMaxAttempts, Max(SkillMinAttempts, Len(playing) * 2))]

generateSkillAmericanoRound(playing, courts, history) ==
  LET loop == SkillAttempts(playing, courts, history)
  IN  AttemptLoop(loop.candidates, loop.attempts)

\* ------------------------------------------------------------ public API
MatchPlayerIds(matches) ==
  Flatten([i \in 1..Len(matches) |-> matches[i].teamA \o matches[i].teamB])

\* mutant: the early returns report nobody sitting out
FailClosedNobody(active) == [matches |-> <<>>, sittingOut |-> <<>>]

\* the early returns of generateRoundMatchups: no match, every active player sits out
FailClosed(active) == [matches |-> <<>>, sittingOut |-> Ids(active)]

\* mutant: inMatch collects teamA only
FinalSittingOutTeamA(active, matches) ==
  LET inMatch == UNION {Range(matches[i].teamA) : i \in 1..Len(matches)}
  IN  Ids(Filter(active, LAMBDA p : p.id \notin inMatch))

\* mutant: the selector's empty sitting-out list is returned
FinalSittingOutEmpty(active, matches) == <<>>

\* "Recompute sittingOut based on who actually got assigned a match"
FinalSittingOut(active, matches) ==
  LET inMatch == Range(MatchPlayerIds(matches))
  IN  Ids(Filter(active, LAMBDA p : p.id \notin inMatch))

\* the set of { matches, sittingOut } results generateRoundMatchups can return
generateRoundMatchups(players, courts, algorithm, previousRounds, currentRound) ==
  LET active == Filter(players, IsActive)
      history == buildHistory(players, previousRounds)
      selections == IF algorithm = "mix_americano"
                    THEN {selectPlayersForMixRound(players, courts, history)}
                    ELSE selectPlayersForRound(players, courts, history)
      isFirstRound == Len(previousRounds) = 0
      Generate(playing) ==
        CASE algorithm = "americano" -> generateAmericanoRound(playing, courts, history)
          [] algorithm = "mexicano" ->
               generateMexicanoRound(playing, courts, history, isFirstRound)
          [] algorithm = "mix_americano" ->
               generateMixAmericanoRound(playing, courts, history)
          [] algorithm = "skill_americano" ->
               generateSkillAmericanoRound(playing, courts, history)
          [] OTHER -> generateAmericanoRound(playing, courts, history)
  IN  IF Len(active) < 4 THEN {FailClosed(active)}
      ELSE UNION {IF Len(sel.playing) < 4 THEN {FailClosed(active)}
                  ELSE {[matches |-> matches,
                         sittingOut |-> FinalSittingOut(active, matches)]
                        : matches \in Generate(sel.playing)}
                 : sel \in selections}

\* mutant: a round without matches counts as completed
isRoundCompletedEvery(round) ==
  \A i \in 1..Len(round.matches) : round.matches[i].status = "completed"

isRoundCompleted(round) ==
  /\ Len(round.matches) > 0
  /\ \A i \in 1..Len(round.matches) : round.matches[i].status = "completed"

\* compare(a, b) < 0 of the round-number sorts
RoundBefore(a, b) == a.roundNumber - b.roundNumber < 0

\* the loop "for (roundNum = fromRound; roundNum <= config.rounds; roundNum++)":
\* the set of values the local array `schedule` can hold when it ends
RECURSIVE GenerateFrom(_, _, _, _, _)
GenerateFrom(players, config, preservedRounds, roundNum, generated) ==
  IF roundNum > config.rounds THEN {generated}
  ELSE IF \E i \in 1..Len(preservedRounds) : preservedRounds[i].roundNumber = roundNum
       THEN GenerateFrom(players, config, preservedRounds, roundNum + 1, generated)
       ELSE LET allPrior == preservedRounds \o generated
            IN  UNION {GenerateFrom(players, config, preservedRounds, roundNum + 1,
                          Append(generated, [roundNumber |-> roundNum,
                                             matches |-> res.matches,
                                             sittingOut |-> res.sittingOut]))
                       : res \in generateRoundMatchups(players, config.courts,
                                    config.algorithm, allPrior, roundNum)}

\* mutant: completed rounds at or after the cutoff are not kept
PreservedRoundsCutoffOnly(existingSchedule, fromRound) ==
  StableSort(Filter(existingSchedule, LAMBDA round : round.roundNumber < fromRound),
             RoundBefore)

\* mutant: only completed rounds are kept
PreservedRoundsCompletedOnly(existingSchedule, fromRound) ==
  StableSort(Filter(existingSchedule, LAMBDA round : isRoundCompleted(round)),
             RoundBefore)

PreservedRounds(existingSchedule, fromRound) ==
  StableSort(Filter(existingSchedule,
                    LAMBDA round : round.roundNumber < fromRound \/ isRoundCompleted(round)),
             RoundBefore)

\* mutant: the result is not sorted by round number
generateScheduleUnsorted(players, config, existingSchedule, fromRound) ==
  LET preservedRounds == PreservedRounds(existingSchedule, fromRound)
  IN  {preservedRounds \o generated :
         generated \in GenerateFrom(players, config, preservedRounds, fromRound, <<>>)}

\* mutant: the loop stops one round early
generateScheduleShort(players, config, existingSchedule, fromRound) ==
  LET preservedRounds == PreservedRounds(existingSchedule, fromRound)
      short == [config EXCEPT !.rounds = @ - 1]
  IN  {StableSort(preservedRounds \o generated, RoundBefore) :
         generated \in GenerateFrom(players, short, preservedRounds, fromRound, <<>>)}

\* the set of schedules generateSchedule can return
generateSchedule(players, config, existingSchedule, fromRound) ==
  LET preservedRounds == PreservedRounds(existingSchedule, fromRound)
  IN  {StableSort(preservedRounds \o generated, RoundBefore) :
         generated \in GenerateFrom(players, config, preservedRounds, fromRound, <<>>)}

regenerateSchedule(players, config, existingSchedule, currentRound) ==
  generateSchedule(players, config, existingSchedule, currentRound)

\* mutant: the four players are taken from the end of the pool
LastFour(pool) == Slice(pool, Len(pool) - 4, Len(pool))

\* pool.slice(0, 4)
FirstFour(pool) == Slice(pool, 0, 4)

\* reshuffleMatch: <<>> for null, else the one match
reshuffleMatch(players, algorithm, pool, court, previousRounds) ==
  IF Len(pool) < 4 THEN <<>>
  ELSE
    LET history == buildHistory(players, previousRounds)
        fourPlayers == FirstFour(pool)
        americano == bestAmericanoPairing(Ids(fourPlayers), history)
        pairing ==
          CASE algorithm = "americano" -> americano
            [] algorithm = "mexicano" ->
                 LET sorted == StableSort(fourPlayers,
                                 LAMBDA a, b : b.totalPoints - a.totalPoints < 0)
                 IN  [teamA |-> <<sorted[1].id, sorted[4].id>>,
                      teamB |-> <<sorted[2].id, sorted[3].id>>]
            [] algorithm = "mix_americano" ->
                 LET males == Filter(fourPlayers, LAMBDA p : p.gender = "M")
                     females == Filter(fourPlayers, LAMBDA p : p.gender = "F")
                 IN  IF Len(males) >= 2 /\ Len(females) >= 2
                     THEN LET option1 == [teamA |-> <<males[1].id, females[1].id>>,
                                          teamB |-> <<males[2].id, females[2].id>>]
                              option2 == [teamA |-> <<males[1].id, females[2].id>>,
                                          teamB |-> <<males[2].id, females[1].id>>]
                              s1 == scoreMixPairing(option1.teamA, option1.teamB, history)
                              s2 == scoreMixPairing(option2.teamA, option2.teamB, history)
                          IN  IF s1 <= s2 THEN option1 ELSE option2
                     ELSE americano
            [] algorithm = "skill_americano" ->
                 bestSkillPairing(Ids(fourPlayers), fourPlayers, history)
            [] OTHER -> americano
    IN  <<NewMatch(court, pairing.teamA, pairing.teamB)>>

\* mutant: only the male count is tested
validateMixAmericanoMales(players) ==
  LET active == Filter(players, IsActive)
      males == Filter(active, LAMBDA p : p.gender = "M")
  IN  IF Len(males) < 2 THEN "Need at least 2 male players" ELSE "null"

\* validateMixAmericano: "null" for null, else the message without its count
validateMixAmericano(players) ==
  LET active == Filter(players, IsActive)
      males == Filter(active, LAMBDA p : p.gender = "M")
      females == Filter(active, LAMBDA p : p.gender = "F")
  IN  IF Len(males) < 2 THEN "Need at least 2 male players"
      ELSE IF Len(females) < 2 THEN "Need at least 2 female players"
      ELSE "null"

\* completedRounds.find: <<>> for undefined, else the first round with the number
Find(rounds, roundNumber) ==
  LET hits == Filter(rounds, LAMBDA r : r.roundNumber = roundNumber)
  IN  IF hits = <<>> THEN <<>> ELSE <<hits[1]>>

isMexicanoFutureRound(algorithm, roundNumber, completedRounds) ==
  IF algorithm # "mexicano" THEN FALSE
  ELSE IF roundNumber <= 1 THEN FALSE
  ELSE LET prevRound == Find(completedRounds, roundNumber - 1)
       IN  prevRound = <<>> \/ ~isRoundCompleted(prevRound[1])

\* ------------------------------------------------------------------ state
VARIABLES
  players,    \* store: the roster
  config,     \* store: courts, rounds, algorithm
  schedule,   \* store: the rounds
  ret,        \* the last scheduler call, its arguments and what it returned
  calls,      \* scheduler calls made
  edits       \* store edits made

vars == <<players, config, schedule, ret, calls, edits>>

NoCall == [op |-> "none"]

PlayerIds == 1..NumPlayers
Scores == {<<2, 1>>}
Configs == [courts : 1..MaxCourts, rounds : 1..MaxRounds, algorithm : Algorithms]
\* the updates the session screen makes while a session runs: the number of rounds
ConfigUpdates == [rounds : 1..MaxRounds]

\* a player as addPlayer creates it, with the gender and skill chosen in the form
NewPlayer(id, gender, skill) ==
  [id |-> id, status |-> "active", gender |-> gender, skill |-> skill,
   gamesPlayed |-> 0, sitOutCount |-> 0, totalPoints |-> 0, wins |-> 0]

\* the rosters sessions start from: two men and two women at least, the
\* remaining players of either gender, skills low and high
Rosters ==
  {[i \in PlayerIds |-> NewPlayer(i, g[i], IF i % 2 = 1 THEN 1 ELSE 5)] :
     g \in {h \in [PlayerIds -> {"M", "F"}] :
              \A i \in PlayerIds : i <= 4 => h[i] = (IF i <= 2 THEN "M" ELSE "F")}}

Init ==
  /\ players \in Rosters
  /\ config \in Configs
  /\ schedule = <<>>
  /\ ret = NoCall
  /\ calls = 0
  /\ edits = 0

\* ------------------------------------------------------- scheduler calls
\* regenerateSchedule(players, config, schedule, k) followed by setSchedule
RegenerateSchedule(k) ==
  /\ calls < MaxCalls
  /\ \E result \in regenerateSchedule(players, config, schedule, k) :
       /\ schedule' = result
       /\ ret' = [op |-> "generateSchedule", config |-> config,
                  existingSchedule |-> schedule, fromRound |-> k,
                  result |-> result]
  /\ calls' = calls + 1
  /\ UNCHANGED <<players, config, edits>>

\* ----------------------------------------------------------- store edits
Edit ==
  /\ 0 < calls /\ calls < MaxCalls
  /\ edits < MaxEdits
  /\ edits' = edits + 1
  /\ ret' = NoCall
  /\ calls' = calls

SetStatus(id, status) ==
  [i \in 1..Len(players) |->
     IF players[i].id = id THEN [players[i] EXCEPT !.status = status] ELSE players[i]]

pausePlayer(id) ==
  /\ Edit
  /\ \E i \in 1..Len(players) : players[i].id = id /\ players[i].status = "active"
  /\ players' = SetStatus(id, "paused")
  /\ UNCHANGED <<config, schedule>>

resumePlayer(id) ==
  /\ Edit
  /\ \E i \in 1..Len(players) : players[i].id = id /\ players[i].status = "paused"
  /\ players' = SetStatus(id, "active")
  /\ UNCHANGED <<config, schedule>>

removePlayer(id) ==
  /\ Edit
  /\ \E i \in 1..Len(players) : players[i].id = id /\ players[i].status # "removed"
  /\ players' = SetStatus(id, "removed")
  /\ UNCHANGED <<config, schedule>>

setConfig(updates) ==
  /\ Edit
  /\ config' = [f \in DOMAIN config |->
                  IF f \in DOMAIN updates THEN updates[f] ELSE config[f]]
  /\ config' # config
  /\ UNCHANGED <<players, schedule>>

\* schedule.map(round => round.roundNumber === roundNumber ? {...round,
\*   matches: round.matches.map(m => m.id === matchId ? Change(m) : m)} : round)
MapMatch(roundNumber, court, Change(_)) ==
  [r \in 1..Len(schedule) |->
     IF schedule[r].roundNumber = roundNumber
     THEN [schedule[r] EXCEPT !.matches =
             [m \in 1..Len(schedule[r].matches) |->
                IF schedule[r].matches[m].court = court
                THEN Change(schedule[r].matches[m])
                ELSE schedule[r].matches[m]]]
     ELSE schedule[r]]

\* state.schedule.find(r => r.roundNumber === roundNumber)?.matches.find(...)
FindMatch(roundNumber, court) ==
  LET rs == {r \in 1..Len(schedule) : schedule[r].roundNumber = roundNumber}
  IN  IF rs = {} THEN <<>>
      ELSE LET r == CHOOSE x \in rs : \A y \in rs : x <= y
               ms == {m \in 1..Len(schedule[r].matches) :
                        schedule[r].matches[m].court = court}
           IN  IF ms = {} THEN <<>>
               ELSE <<schedule[r].matches[CHOOSE x \in ms : \A y \in ms : x <= y]>>

updateMatchScore(roundNumber, court, score) ==
  LET total == score[1] + score[2]
      excess == total - PointsPerMatch
      adjusted == IF total > PointsPerMatch
                  THEN IF score[1] >= score[2]
                       THEN <<Max(0, score[1] - excess), score[2]>>
                       ELSE <<score[1], Max(0, score[2] - excess)>>
                  ELSE score
  IN  /\ Edit
      /\ FindMatch(roundNumber, court) # <<>>
      /\ schedule' = MapMatch(roundNumber, court,
                       LAMBDA m : [m EXCEPT !.score = adjusted, !.status = "in_progress"])
      /\ UNCHANGED <<players, config>>

completeMatch(roundNumber, court) ==
  LET found == FindMatch(roundNumber, court)
  IN  /\ Edit
      /\ IF found = <<>> \/ found[1].score = <<>>
         THEN UNCHANGED <<players, schedule>>
         ELSE LET match == found[1]
                  teamAWon == match.score[1] > match.score[2]
                  winScore == IF teamAWon THEN match.score[1] ELSE match.score[2]
                  loseScore == IF teamAWon THEN match.score[2] ELSE match.score[1]
                  inA(p) == p.id \in Range(match.teamA)
                  inB(p) == p.id \in Range(match.teamB)
                  isWinner(p) == (teamAWon /\ inA(p)) \/ (~teamAWon /\ inB(p))
              IN  /\ players' =
                       [i \in 1..Len(players) |->
                          IF ~(inA(players[i]) \/ inB(players[i])) THEN players[i]
                          ELSE [players[i] EXCEPT
                                  !.gamesPlayed = @ + 1,
                                  !.totalPoints = @ + (IF isWinner(players[i])
                                                       THEN winScore ELSE loseScore),
                                  !.wins = IF isWinner(players[i]) THEN @ + 1 ELSE @]]
                  /\ schedule' = MapMatch(roundNumber, court,
                                   LAMBDA m : [m EXCEPT !.status = "completed"])
      /\ UNCHANGED config

Next ==
  \/ \E k \in 1..(MaxRounds + 1) : RegenerateSchedule(k)
  \/ \E id \in PlayerIds : pausePlayer(id)
  \/ \E id \in PlayerIds : resumePlayer(id)
  \/ \E id \in PlayerIds : removePlayer(id)
  \/ \E updates \in ConfigUpdates : setConfig(updates)
  \/ \E r \in 1..MaxRounds, c \in 1..MaxCourts, score \in Scores :
       updateMatchScore(r, c, score)
  \/ \E r \in 1..MaxRounds, c \in 1..MaxCourts : completeMatch(r, c)

Spec == Init /\ [][Next]_vars

\* ------------------------------------------- single calls on given inputs
\* generateRoundMatchups and reshuffleMatch applied once to a roster and a list
\* of prior rounds: players and schedule hold the inputs, ret the result.
RoundIds == 1..RoundPlayers

GenderPatterns ==
  {[i \in RoundIds |-> IF i % 2 = 1 THEN "M" ELSE "F"],
   [i \in RoundIds |-> IF i = 1 THEN "F" ELSE "M"]}

StatusPatterns ==
  {[i \in RoundIds |-> "active"],
   [i \in RoundIds |-> IF i = RoundPlayers THEN "paused" ELSE "active"],
   [i \in RoundIds |-> IF i = 2 THEN "removed"
                       ELSE IF i = RoundPlayers THEN "paused" ELSE "active"]}

\* standings: nobody has played, or points falling with the id in steps of two
\* players, the players of a step apart by their wins, games played rising with
\* the id in steps of three, player 3 with a sit-out carried over
StandingsPatterns ==
  {[i \in RoundIds |-> [totalPoints |-> 0, wins |-> 0, gamesPlayed |-> 0,
                        sitOutCount |-> 0]],
   [i \in RoundIds |-> [totalPoints |-> 3 * ((RoundPlayers + 1 - i) \div 2),
                        wins |-> (i + 1) % 2, gamesPlayed |-> 1 + (i \div 3),
                        sitOutCount |-> IF i = 3 THEN 1 ELSE 0]]}

RoundRosters ==
  {[i \in RoundIds |->
      [id |-> i, status |-> st[i], gender |-> g[i],
       skill |-> IF i % 4 = 1 THEN 5 ELSE IF i % 4 = 0 THEN 3 ELSE 1,
       gamesPlayed |-> sd[i].gamesPlayed, sitOutCount |-> sd[i].sitOutCount,
       totalPoints |-> sd[i].totalPoints, wins |-> sd[i].wins]] :
     g \in GenderPatterns, st \in StatusPatterns, sd \in StandingsPatterns}

\* prior rounds: the first rounds of a played session on one court
PlayedMatch(teamA, teamB) ==
  [court |-> 1, teamA |-> teamA, teamB |-> teamB,
   status |-> "completed", score |-> <<2, 1>>]

PlayedRounds ==
  << [roundNumber |-> 1, matches |-> <<PlayedMatch(<<1, 2>>, <<3, 4>>)>>,
      sittingOut |-> [i \in 1..(RoundPlayers - 4) |-> 4 + i]],
     [roundNumber |-> 2, matches |-> <<PlayedMatch(<<1, 3>>, <<2, 4>>)>>,
      sittingOut |-> [i \in 1..(RoundPlayers - 4) |-> 4 + i]],
     [roundNumber |-> 3, matches |-> <<PlayedMatch(<<4, 1>>, <<3, 2>>)>>,
      sittingOut |-> [i \in 1..(RoundPlayers - 4) |-> 4 + i]] >>

PriorSchedules == {SubSeq(PlayedRounds, 1, n) : n \in 0..Min(MaxPrior, Len(PlayedRounds))}

\* the candidate pools the session screen passes: the active players that are
\* not on another court, in roster order
Pools ==
  LET active == Filter(players, IsActive)
  IN  {Filter(active, LAMBDA p : p.id \in keep) : keep \in SUBSET Range(Ids(active))}

InitRound ==
  /\ players \in RoundRosters
  /\ config \in {c \in Configs : c.rounds = MaxRounds}
  /\ schedule \in PriorSchedules
  /\ ret = NoCall
  /\ calls = 0
  /\ edits = 0

GenerateRoundMatchups(currentRound) ==
  /\ calls = 0
  /\ \E res \in generateRoundMatchups(players, config.courts, config.algorithm,
                                      schedule, currentRound) :
       ret' = [op |-> "generateRoundMatchups", currentRound |-> currentRound,
               matches |-> res.matches, sittingOut |-> res.sittingOut]
  /\ calls' = 1
  /\ UNCHANGED <<players, config, schedule, edits>>

ReshuffleMatch(pool, court) ==
  /\ calls = 0
  /\ ret' = [op |-> "reshuffleMatch", pool |-> pool, court |-> court,
             match |-> reshuffleMatch(players, config.algorithm, pool, court, schedule)]
  /\ calls' = 1
  /\ UNCHANGED <<players, config, schedule, edits>>

ValidateMixAmericano ==
  /\ calls = 0
  /\ ret' = [op |-> "validateMixAmericano", result |-> validateMixAmericano(players)]
  /\ calls' = 1
  /\ UNCHANGED <<players, config, schedule, edits>>

\* the schedules the session screen can hold for the rounds played so far: the
\* last round completed, still being played, emptied of matches, or missing
ScheduleVariants ==
  IF schedule = <<>> THEN {schedule}
  ELSE LET n == Len(schedule)
           playing == [i \in 1..Len(schedule[n].matches) |->
                         [schedule[n].matches[i] EXCEPT !.status = "in_progress"]]
       IN  {schedule,
            [schedule EXCEPT ![n].matches = playing],
            [schedule EXCEPT ![n].matches = <<>>],
            SubSeq(schedule, 1, n - 1)}

IsMexicanoFutureRound(roundNumber, completedRounds) ==
  /\ calls = 0
  /\ ret' = [op |-> "isMexicanoFutureRound", roundNumber |-> roundNumber,
             completedRounds |-> completedRounds,
             result |-> isMexicanoFutureRound(config.algorithm, roundNumber,
                                              completedRounds)]
  /\ calls' = 1
  /\ UNCHANGED <<players, config, schedule, edits>>

\* two teams of two out of the roster, player 1 first in teamA
TeamPairs ==
  {t \in {[teamA |-> <<1, b>>, teamB |-> <<c, d>>] :
            b \in RoundIds \ {1}, c \in RoundIds \ {1}, d \in RoundIds \ {1}} :
     Cardinality(Range(t.teamA) \cup Range(t.teamB)) = 4}

ScoreAmericanoPairing(teamA, teamB) ==
  /\ calls = 0
  /\ ret' = [op |-> "scoreAmericanoPairing", teamA |-> teamA, teamB |-> teamB,
             score |-> scoreAmericanoPairing(teamA, teamB,
                                             buildHistory(players, schedule)),
             best |-> bestAmericanoPairing(teamA \o teamB,
                                           buildHistory(players, schedule))]
  /\ calls' = 1
  /\ UNCHANGED <<players, config, schedule, edits>>

BuildHistory ==
  /\ calls = 0
  /\ ret' = [op |-> "buildHistory", history |-> buildHistory(players, schedule)]
  /\ calls' = 1
  /\ UNCHANGED <<players, config, schedule, edits>>

NextRound ==
  \/ \E currentRound \in 1..MaxRounds : GenerateRoundMatchups(currentRound)
  \/ \E pool \in Pools, court \in 1..MaxCourts : ReshuffleMatch(pool, court)
  \/ ValidateMixAmericano
  \/ \E roundNumber \in 1..(MaxPrior + 1), completedRounds \in ScheduleVariants :
       IsMexicanoFutureRound(roundNumber, completedRounds)
  \/ \E t \in TeamPairs : ScoreAmericanoPairing(t.teamA, t.teamB)
  \/ BuildHistory

SpecRound == InitRound /\ [][NextRound]_vars

\* ------------------------------------------- rounds on two or more courts
CourtIds == 1..CourtPlayers

\* rosters of one gender and of alternating genders; everybody active, or the
\* last one or two players paused
CourtRosters ==
  {[i \in CourtIds |->
      [id |-> i,
       status |-> IF i > CourtPlayers - paused THEN "paused" ELSE "active",
       gender |-> IF mixed /\ i % 2 = 0 THEN "F" ELSE "M",
       skill |-> 1 + ((2 * i) % 5),
       gamesPlayed |-> 0, sitOutCount |-> 0, totalPoints |-> 0, wins |-> 0]] :
     mixed \in BOOLEAN, paused \in 0..2}

CourtPrior ==
  {<<>>,
   << [roundNumber |-> 1, matches |-> <<PlayedMatch(<<1, 2>>, <<3, 4>>)>>,
       sittingOut |-> [i \in 1..(CourtPlayers - 4) |-> 4 + i]] >>}

InitCourts ==
  /\ players \in CourtRosters
  /\ config \in [courts : 2..WideCourts, rounds : {MaxRounds}, algorithm : Algorithms]
  /\ schedule \in CourtPrior
  /\ ret = NoCall
  /\ calls = 0
  /\ edits = 0

\* the round generators with an attempt loop, called as generateRoundMatchups
\* calls them
GenerateAttempts ==
  /\ calls = 0
  /\ config.algorithm \in {"americano", "skill_americano"}
  /\ Len(Filter(players, IsActive)) >= 4
  /\ LET history == buildHistory(players, schedule)
     IN  \E sel \in selectPlayersForRound(players, config.courts, history) :
           LET loop == IF config.algorithm = "americano"
                       THEN AmericanoAttempts(sel.playing, config.courts, history)
                       ELSE SkillAttempts(sel.playing, config.courts, history)
           IN  \E run \in AttemptRuns(loop.candidates, loop.attempts) :
                 ret' = [op |-> "attempts", matches |-> run.matches,
                         totalScore |-> run.totalScore, seen |-> run.seen]
  /\ calls' = 1
  /\ UNCHANGED <<players, config, schedule, edits>>

NextCourts ==
  \/ \E currentRound \in 1..MaxRounds : GenerateRoundMatchups(currentRound)
  \/ GenerateAttempts

SpecCourts == InitCourts /\ [][NextCourts]_vars

\* ------------------------------------------- one pass of generateSchedule
\* generateSchedule(players, config) with the default arguments: no existing
\* schedule, from round 1, all rounds from one snapshot of the roster
PassIds == 1..PassPlayers

\* rosters at the start of a session: nobody has played or sat out; the
\* standings are level or graded
PassRosters ==
  {[i \in PassIds |->
      [id |-> i,
       status |-> IF i > PassPlayers - paused THEN "paused" ELSE "active",
       gender |-> IF i % 2 = 0 THEN "F" ELSE "M",
       skill |-> 1 + ((2 * i) % 5),
       gamesPlayed |-> 0, sitOutCount |-> 0,
       totalPoints |-> IF graded THEN 3 * (i % 3) ELSE 0,
       wins |-> IF graded THEN i % 2 ELSE 0]] :
     paused \in 0..1, graded \in BOOLEAN}

InitPass ==
  /\ players \in PassRosters
  /\ config \in [courts : 1..2, rounds : 2..PassRounds, algorithm : Algorithms]
  /\ Len(Filter(players, IsActive)) * config.rounds <= PassLoad
  /\ schedule = <<>>
  /\ ret = NoCall
  /\ calls = 0
  /\ edits = 0

GenerateSchedule ==
  /\ calls = 0
  /\ \E result \in generateSchedule(players, config, <<>>, 1) :
       /\ schedule' = result
       /\ ret' = [op |-> "generateSchedule", config |-> config,
                  existingSchedule |-> <<>>, fromRound |-> 1,
                  result |-> result]
  /\ calls' = 1
  /\ UNCHANGED <<players, config, edits>>

NextPass == GenerateSchedule

SpecPass == InitPass /\ [][NextPass]_vars

\* ================================================================ claims
IsScheduleCall == ret.op = "generateSchedule"
IsRoundCall == ret.op = "generateRoundMatchups"
IsReshuffleCall == ret.op = "reshuffleMatch"

RoundNumbers(rounds) == {rounds[i].roundNumber : i \in 1..Len(rounds)}
UniqueNumbers(rounds) ==
  \A i, j \in 1..Len(rounds) : rounds[i].roundNumber = rounds[j].roundNumber => i = j
StrictlyIncreasing(rounds) ==
  \A i \in 1..(Len(rounds) - 1) : rounds[i].roundNumber < rounds[i + 1].roundNumber
\* a round is completed: at least one match, every match completed
Completed(round) ==
  /\ Len(round.matches) >= 1
  /\ \A m \in Range(round.matches) : m.status = "completed"
RoundsBelow(rounds, k) == Filter(rounds, LAMBDA round : round.roundNumber < k)
MatchIdSet(matches) ==
  UNION {Range(matches[i].teamA) \cup Range(matches[i].teamB) : i \in 1..Len(matches)}
RoundIdSet(round) == MatchIdSet(round.matches) \cup Range(round.sittingOut)
ActiveIdSet == {players[i].id : i \in {x \in 1..Len(players) : players[x].status = "active"}}
\* a round of the result that the call generated: it is not one of the input's
Fresh(round) == round \notin Range(ret.existingSchedule)

\* C1: every completed round of the existing schedule is in the schedule that
\* generateSchedule/regenerateSchedule returns, with the same round number,
\* matches and sitting-out list, whatever fromRound is, after any sequence of
\* regenerations and match completions.
C1_CompletedRoundsKept ==
  IsScheduleCall =>
    \A i \in 1..Len(ret.existingSchedule) :
      Completed(ret.existingSchedule[i]) =>
        \E j \in 1..Len(ret.result) : ret.result[j] = ret.existingSchedule[i]

\* a second call kept a completed round numbered at or after fromRound and
\* generated an earlier round anew
C1_Witness ==
  /\ IsScheduleCall
  /\ calls = 2
  /\ \E i \in 1..Len(ret.existingSchedule), j \in 1..Len(ret.result) :
       /\ Completed(ret.existingSchedule[i])
       /\ ret.existingSchedule[i].roundNumber >= ret.fromRound
       /\ ret.existingSchedule[i] \in Range(ret.result)
       /\ Fresh(ret.result[j])
       /\ ret.result[j].roundNumber < ret.existingSchedule[i].roundNumber

\* C2: the rounds of the existing schedule numbered below fromRound are returned
\* unchanged, completed or not, and no other round below fromRound is returned.
C2_RoundsBelowCutoffKept ==
  IsScheduleCall =>
    /\ Range(RoundsBelow(ret.result, ret.fromRound))
         = Range(RoundsBelow(ret.existingSchedule, ret.fromRound))
    /\ Len(RoundsBelow(ret.result, ret.fromRound))
         = Len(RoundsBelow(ret.existingSchedule, ret.fromRound))

\* a call kept a round below the cutoff that is not completed and generated a
\* round at or after the cutoff
C2_Witness ==
  /\ IsScheduleCall
  /\ \E i \in 1..Len(ret.existingSchedule), j \in 1..Len(ret.result) :
       /\ ret.existingSchedule[i].roundNumber < ret.fromRound
       /\ ~Completed(ret.existingSchedule[i])
       /\ ret.existingSchedule[i] \in Range(ret.result)
       /\ ret.result[j].roundNumber >= ret.fromRound
       /\ Fresh(ret.result[j])

ExactlyTheRounds(rounds, n) ==
  /\ Len(rounds) = n
  /\ \A k \in 1..n : \E j \in 1..Len(rounds) : rounds[j].roundNumber = k

\* C3 as stated: generateSchedule returns exactly the rounds 1..config.rounds,
\* for every existing schedule and every fromRound.
C3_Original == IsScheduleCall => ExactlyTheRounds(ret.result, ret.config.rounds)

\* C3 amended: generateSchedule returns exactly the rounds 1..config.rounds
\* when the existing schedule has unique round numbers, none above
\* config.rounds, and holds every round number below fromRound.
C3_ExactlyTheRounds ==
  ( /\ IsScheduleCall
    /\ UniqueNumbers(ret.existingSchedule)
    /\ RoundNumbers(ret.existingSchedule) \subseteq 1..ret.config.rounds
    /\ 1..(ret.fromRound - 1) \subseteq RoundNumbers(ret.existingSchedule) )
  => ExactlyTheRounds(ret.result, ret.config.rounds)

\* a regeneration from round 2 on: round 1 kept, a later round generated
C3_Witness ==
  /\ IsScheduleCall
  /\ ret.fromRound >= 2
  /\ UniqueNumbers(ret.existingSchedule)
  /\ RoundNumbers(ret.existingSchedule) \subseteq 1..ret.config.rounds
  /\ 1..(ret.fromRound - 1) \subseteq RoundNumbers(ret.existingSchedule)
  /\ \E j \in 1..Len(ret.result) :
       Fresh(ret.result[j]) /\ ret.result[j].roundNumber >= ret.fromRound

\* a round as the round generator leaves it: only active players of the
\* roster, every match upcoming and without a score
FromRoster(round) ==
  /\ RoundIdSet(round) \subseteq ActiveIdSet
  /\ \A m \in Range(round.matches) : m.status = "upcoming" /\ m.score = <<>>

C8_StrictlyIncreasing ==
  /\ StrictlyIncreasing(schedule)
  /\ (IsScheduleCall /\ UniqueNumbers(ret.existingSchedule))
       => StrictlyIncreasing(ret.result)

\* a kept completed round follows a round generated in the same call
C8_Witness ==
  /\ IsScheduleCall
  /\ UniqueNumbers(ret.existingSchedule)
  /\ Len(ret.result) >= 2
  /\ \E j \in 2..Len(ret.result) :
       /\ ~Fresh(ret.result[j])
       /\ Completed(ret.result[j])
       /\ Fresh(ret.result[j - 1])

\* ------------------------------------------------- claims on single calls
\* C4: in the round generateRoundMatchups returns, the sitting-out list and the
\* players of the matches are disjoint and together are the active players.
C4_PartitionOfActive ==
  IsRoundCall =>
    /\ Range(ret.sittingOut) \cap MatchIdSet(ret.matches) = {}
    /\ Range(ret.sittingOut) \cup MatchIdSet(ret.matches) = ActiveIdSet

\* a round with a match and somebody sitting out, after earlier rounds
C4_Witness ==
  /\ IsRoundCall
  /\ ret.matches # <<>>
  /\ ret.sittingOut # <<>>
  /\ schedule # <<>>

WellFormed(match) ==
  /\ Len(match.teamA) = 2 /\ Cardinality(Range(match.teamA)) = 2
  /\ Len(match.teamB) = 2 /\ Cardinality(Range(match.teamB)) = 2
  /\ Cardinality(Range(match.teamA) \cup Range(match.teamB)) = 4

\* C5: every match of generateRoundMatchups and the match of reshuffleMatch has
\* two distinct players in each team and four distinct players in all.
C5_FourDistinctPlayers ==
  /\ IsRoundCall => \A m \in Range(ret.matches) : WellFormed(m)
  /\ IsReshuffleCall => \A m \in Range(ret.match) : WellFormed(m)

\* a reshuffle of four players who have shared a court before
C5_Witness ==
  /\ IsReshuffleCall
  /\ ret.match # <<>>
  /\ schedule # <<>>
  /\ \E i \in 1..Len(schedule) :
       MatchIdSet(schedule[i].matches) = MatchIdSet(ret.match)

CountActive(Test(_)) ==
  Cardinality({i \in 1..Len(players) : players[i].status = "active" /\ Test(players[i])})

\* how many players the selector picks to play
SelectedCount ==
  IF config.algorithm = "mix_americano"
  THEN Min(CountActive(LAMBDA p : p.gender = "M"), config.courts * 2)
       + Min(CountActive(LAMBDA p : p.gender = "F"), config.courts * 2)
  ELSE Min(CountActive(LAMBDA p : TRUE), config.courts * 4)

\* C6: with fewer than 4 active players, or fewer than 4 players selected to
\* play, generateRoundMatchups returns no match and every active player
\* sitting out.
C6_FailsClosed ==
  (IsRoundCall /\ (CountActive(LAMBDA p : TRUE) < 4 \/ SelectedCount < 4))
    => /\ ret.matches = <<>>
       /\ Range(ret.sittingOut) = ActiveIdSet
       /\ Len(ret.sittingOut) = Cardinality(ActiveIdSet)

\* four or more active players, too few of one gender for the mix policy
C6_Witness ==
  /\ IsRoundCall
  /\ CountActive(LAMBDA p : TRUE) >= 4
  /\ SelectedCount < 4
  /\ ret.matches = <<>>

PolicyScore(teamA, teamB) ==
  LET history == buildHistory(players, schedule)
  IN  IF config.algorithm = "skill_americano"
      THEN scoreSkillPairing(teamA, teamB, players, history)
      ELSE scoreAmericanoPairing(teamA, teamB, history)

\* every way to put the four players of a match into two teams of two
Regroupings(match) ==
  LET four == match.teamA \o match.teamB
  IN  {[teamA |-> <<four[f[1]], four[f[2]]>>, teamB |-> <<four[f[3]], four[f[4]]>>] :
         f \in IndexPermutations(4)}

\* C9: under the unconstrained and the skill-balanced policy every match of the
\* round has a policy score no higher than any other split of its four players.
C9_BestSplit ==
  (IsRoundCall /\ config.algorithm \in {"americano", "skill_americano"}) =>
    \A m \in Range(ret.matches) : \A other \in Regroupings(m) :
      PolicyScore(m.teamA, m.teamB) <= PolicyScore(other.teamA, other.teamB)

\* a skill-balanced round after earlier rounds whose match beats another split
C9_Witness ==
  /\ IsRoundCall
  /\ config.algorithm = "skill_americano"
  /\ schedule # <<>>
  /\ \E m \in Range(ret.matches) : \E other \in Regroupings(m) :
       PolicyScore(m.teamA, m.teamB) < PolicyScore(other.teamA, other.teamB)

PlayerOf(id) == players[CHOOSE i \in 1..Len(players) : players[i].id = id]

\* a ranks ahead of b: more points, or as many points and more wins
RanksAhead(a, b) ==
  \/ a.totalPoints > b.totalPoints
  \/ a.totalPoints = b.totalPoints /\ a.wins > b.wins

\* the match is {rank1, rank4} versus {rank2, rank3} for a ranking of its four
\* players by points, ties by wins
Seeded(match) ==
  \E other \in Regroupings(match) :
    LET rank1 == PlayerOf(other.teamA[1])
        rank4 == PlayerOf(other.teamA[2])
        rank2 == PlayerOf(other.teamB[1])
        rank3 == PlayerOf(other.teamB[2])
    IN  /\ {Range(other.teamA), Range(other.teamB)}
             = {Range(match.teamA), Range(match.teamB)}
        /\ ~RanksAhead(rank2, rank1)
        /\ ~RanksAhead(rank3, rank2)
        /\ ~RanksAhead(rank4, rank3)

\* C10: under the standings-seeded policy generateRoundMatchups called for a
\* round number >= 2 pairs the four players of each court as {rank1, rank4}
\* versus {rank2, rank3}.
C10_SeededFromRoundTwo ==
  (IsRoundCall /\ config.algorithm = "mexicano" /\ ret.currentRound >= 2) =>
    \A m \in Range(ret.matches) : Seeded(m)

\* ------------------------------------------------------------ C11 .. C20
GenderOf(id) == PlayerOf(id).gender
GamesOf(id) == PlayerOf(id).gamesPlayed
IdsOf(match) == Range(match.teamA) \cup Range(match.teamB)
MixedTeam(team) == {GenderOf(team[1]), GenderOf(team[2])} = {"M", "F"}
TwoAndTwo(match) ==
  /\ Cardinality({id \in IdsOf(match) : GenderOf(id) = "M"}) = 2
  /\ Cardinality({id \in IdsOf(match) : GenderOf(id) = "F"}) = 2

\* C11: under the mix policy every match of generateRoundMatchups on a court
\* filled with two males and two females has one male and one female in each
\* team.
C11_OneOfEachPerTeam ==
  (IsRoundCall /\ config.algorithm = "mix_americano") =>
    \A m \in Range(ret.matches) :
      TwoAndTwo(m) => MixedTeam(m.teamA) /\ MixedTeam(m.teamB)

\* a mix round after earlier rounds with a court of two males and two females
C11_Witness ==
  /\ IsRoundCall
  /\ config.algorithm = "mix_americano"
  /\ schedule # <<>>
  /\ \E m \in Range(ret.matches) : TwoAndTwo(m)

\* C12: validateMixAmericano returns an error string exactly when fewer than 2
\* active males or fewer than 2 active females are in the roster, null
\* otherwise; paused and removed players are not counted.
C12_ValidatorIff ==
  ret.op = "validateMixAmericano" =>
    ( ret.result # "null"
      <=> \/ CountActive(LAMBDA p : p.gender = "M") < 2
          \/ CountActive(LAMBDA p : p.gender = "F") < 2 )

\* an error caused by a paused or removed player: the whole roster has two of
\* each gender
C12_Witness ==
  /\ ret.op = "validateMixAmericano"
  /\ ret.result # "null"
  /\ Cardinality({i \in 1..Len(players) : players[i].gender = "M"}) >= 2
  /\ Cardinality({i \in 1..Len(players) : players[i].gender = "F"}) >= 2

OverCapacity == CountActive(LAMBDA p : TRUE) > config.courts * 4
RoundSize ==
  /\ Len(ret.matches) = config.courts
  /\ Len(ret.sittingOut) = CountActive(LAMBDA p : TRUE) - config.courts * 4

SitOutsOf(id) ==
  PlayerOf(id).sitOutCount
    + Cardinality({i \in 1..Len(schedule) : id \in Range(schedule[i].sittingOut)})

C16_ReshuffleFirstFour ==
  IsReshuffleCall =>
    /\ ret.match = <<>> <=> Len(ret.pool) < 4
    /\ \A m \in Range(ret.match) :
         /\ m.court = ret.court
         /\ m.status = "upcoming"
         /\ Len(m.teamA \o m.teamB) = 4
         /\ IdsOf(m) = {ret.pool[i].id : i \in 1..4}

\* a reshuffle from a pool of more than four players
C16_Witness ==
  /\ IsReshuffleCall
  /\ Len(ret.pool) > 4
  /\ ret.match # <<>>

\* C17: isMexicanoFutureRound is true exactly when the policy is mexicano, the
\* round number is above 1, and the round before it is missing from the
\* supplied rounds or not completed (no match, or a match not completed).
C17_FutureRoundIff ==
  ret.op = "isMexicanoFutureRound" =>
    ( ret.result
      <=> /\ config.algorithm = "mexicano"
          /\ ret.roundNumber > 1
          /\ \A r \in Range(ret.completedRounds) :
               r.roundNumber = ret.roundNumber - 1 => ~Completed(r) )

\* asked about the round after a round that has no match
C17_Witness ==
  /\ ret.op = "isMexicanoFutureRound"
  /\ ret.result
  /\ \E r \in Range(ret.completedRounds) :
       r.roundNumber = ret.roundNumber - 1 /\ r.matches = <<>>

\* how often a and b were in one team, and in opposite teams, in the prior rounds
PriorMatches == UNION {Range(schedule[i].matches) : i \in 1..Len(schedule)}
PriorMatchCount(Test(_)) ==
  Cardinality({ij \in (1..Len(schedule)) \X (1..MaxCourts + 1) :
                 /\ ij[2] <= Len(schedule[ij[1]].matches)
                 /\ Test(schedule[ij[1]].matches[ij[2]])})
PartneredBefore(a, b) ==
  PriorMatchCount(LAMBDA m : {a, b} = Range(m.teamA) \/ {a, b} = Range(m.teamB))
OpposedBefore(a, b) ==
  PriorMatchCount(LAMBDA m : (a \in Range(m.teamA) /\ b \in Range(m.teamB))
                               \/ (a \in Range(m.teamB) /\ b \in Range(m.teamA)))

\* C20: the base diversity score of a split is 10 x the prior partner count of
\* each team's pair, plus 5 x the prior opponent count of each of the four
\* cross-team pairs, plus 1000 if the four have shared a court before.
C20_ScoreFormula ==
  ret.op = "scoreAmericanoPairing" =>
    ret.score
      = 10 * PartneredBefore(ret.teamA[1], ret.teamA[2])
        + 10 * PartneredBefore(ret.teamB[1], ret.teamB[2])
        + 5 * ( OpposedBefore(ret.teamA[1], ret.teamB[1])
                + OpposedBefore(ret.teamA[1], ret.teamB[2])
                + OpposedBefore(ret.teamA[2], ret.teamB[1])
                + OpposedBefore(ret.teamA[2], ret.teamB[2]) )
        + (IF \E m \in PriorMatches :
                IdsOf(m) = Range(ret.teamA) \cup Range(ret.teamB)
           THEN 1000 ELSE 0)

\* a split of four players who met before, scored with partner, opponent and
\* repeat terms
C20_Witness ==
  /\ ret.op = "scoreAmericanoPairing"
  /\ ret.score > 1000
  /\ PartneredBefore(ret.teamA[1], ret.teamA[2]) > 0
  /\ OpposedBefore(ret.teamA[1], ret.teamB[1]) > 0

\* ---------------------------------------------- claims on several courts
WithinCapacity == CountActive(LAMBDA p : TRUE) <= config.courts * 4

\* C15 as stated: under the unconstrained policy, with no more active players
\* than courts x 4, the round's sitting-out list is empty.
C15_Original ==
  (IsRoundCall /\ config.algorithm = "americano" /\ WithinCapacity) =>
    ret.sittingOut = <<>>

\* C15 amended: under the unconstrained policy, with at least 4 and no more
\* than courts x 4 active players, the round has one match per full group of
\* four and its sitting-out list holds the active players beyond the last
\* full group: it is empty exactly when the active count is a multiple of 4.
C15_RemainderSitsOut ==
  ( /\ IsRoundCall
    /\ config.algorithm = "americano"
    /\ WithinCapacity
    /\ CountActive(LAMBDA p : TRUE) >= 4 )
  => /\ Len(ret.matches) = CountActive(LAMBDA p : TRUE) \div 4
     /\ Len(ret.sittingOut) = CountActive(LAMBDA p : TRUE) % 4

\* two courts or more, five or six active players: one match, the rest sit out
C15_Witness ==
  /\ IsRoundCall
  /\ config.algorithm = "americano"
  /\ config.courts >= 2
  /\ WithinCapacity
  /\ Len(ret.matches) = 1
  /\ ret.sittingOut # <<>>

OrderedPairs == {k \in RoundIds \X RoundIds : k[1] < k[2]}

\* C21: buildHistory gives, for each unordered pair, the number of prior
\* matches with the two in one team and the number with the two in opposite
\* teams; the 4-player sets of the prior matches; and for each player the
\* persisted sitOutCount plus the number of prior rounds the player sat out.
C21_HistoryCounts ==
  ret.op = "buildHistory" =>
    /\ \A k \in OrderedPairs :
         /\ Get(ret.history.partnerCount, k) = PartneredBefore(k[1], k[2])
         /\ Get(ret.history.opponentCount, k) = OpposedBefore(k[1], k[2])
    /\ (DOMAIN ret.history.partnerCount) \cup (DOMAIN ret.history.opponentCount)
         \subseteq OrderedPairs
    /\ {Range(key) : key \in ret.history.matchupSet} = {IdsOf(m) : m \in PriorMatches}
    /\ \A i \in 1..Len(players) :
         Get(ret.history.sitOutCounts, players[i].id) = SitOutsOf(players[i].id)

\* two prior rounds, a pair opposed twice, a carried-over sit-out count and a
\* player who sat out both rounds
C21_Witness ==
  /\ ret.op = "buildHistory"
  /\ Len(schedule) = 2
  /\ \E k \in OrderedPairs : OpposedBefore(k[1], k[2]) = 2
  /\ \E i \in 1..Len(players) : players[i].sitOutCount > 0
  /\ \E i \in 1..Len(players) :
       players[i].sitOutCount = 0 /\ SitOutsOf(players[i].id) = 2

\* the base diversity score, from the prior rounds
BaseScore(teamA, teamB) ==
  10 * PartneredBefore(teamA[1], teamA[2])
  + 10 * PartneredBefore(teamB[1], teamB[2])
  + 5 * ( OpposedBefore(teamA[1], teamB[1]) + OpposedBefore(teamA[1], teamB[2])
          + OpposedBefore(teamA[2], teamB[1]) + OpposedBefore(teamA[2], teamB[2]) )
  + (IF \E m \in PriorMatches : IdsOf(m) = Range(teamA) \cup Range(teamB)
     THEN 1000 ELSE 0)

\* C22: under the skill policy the chosen split of four players has no
\* previously partnered pair when another split of the four has a strictly
\* lower base diversity score.
C22_SkillNeverOverrides ==
  (IsRoundCall /\ config.algorithm = "skill_americano") =>
    \A m \in Range(ret.matches) :
      ( \/ PartneredBefore(m.teamA[1], m.teamA[2]) > 0
        \/ PartneredBefore(m.teamB[1], m.teamB[2]) > 0 )
      => \A other \in Regroupings(m) :
           ~(BaseScore(other.teamA, other.teamB) < BaseScore(m.teamA, m.teamB))

\* C25: reshuffleMatch under the mexicano policy pairs its four players as the
\* round generator's seeding does: ranked by points, ties by wins, rank 1 with
\* rank 4 against rank 2 with rank 3.
C25_ReshuffleSeeded ==
  (IsReshuffleCall /\ config.algorithm = "mexicano") =>
    \A m \in Range(ret.match) : Seeded(m)

PoolFour == [i \in 1..4 |-> ret.pool[i]]
PoolMales == Filter(PoolFour, LAMBDA p : p.gender = "M")
PoolFemales == Filter(PoolFour, LAMBDA p : p.gender = "F")
MixedSplits(match) ==
  {o \in Regroupings(match) : MixedTeam(o.teamA) /\ MixedTeam(o.teamB)}

\* C26: reshuffleMatch under the mix policy: with two males and two females
\* among the first four of the pool, each team has one of each and the split
\* is the lower-scoring of the two mixed splits, the first male with the first
\* female on a tie; otherwise the result is the unconstrained best split.
C26_ReshuffleMix ==
  (IsReshuffleCall /\ config.algorithm = "mix_americano" /\ ret.match # <<>>) =>
    LET m == ret.match[1]
    IN  IF Len(PoolMales) >= 2 /\ Len(PoolFemales) >= 2
        THEN /\ MixedTeam(m.teamA) /\ MixedTeam(m.teamB)
             /\ \A o \in MixedSplits(m) :
                  BaseScore(m.teamA, m.teamB) <= BaseScore(o.teamA, o.teamB)
             /\ (\A o \in MixedSplits(m) :
                   BaseScore(m.teamA, m.teamB) = BaseScore(o.teamA, o.teamB))
                 => /\ m.teamA = <<PoolMales[1].id, PoolFemales[1].id>>
                    /\ m.teamB = <<PoolMales[2].id, PoolFemales[2].id>>
        ELSE LET best == bestAmericanoPairing(Ids(PoolFour),
                                              buildHistory(players, schedule))
             IN  m.teamA = best.teamA /\ m.teamB = best.teamB

\* the two mixed splits of the pool's first four score differently
C26_Witness ==
  /\ IsReshuffleCall
  /\ config.algorithm = "mix_americano"
  /\ ret.match # <<>>
  /\ Len(PoolMales) >= 2 /\ Len(PoolFemales) >= 2
  /\ \E o \in MixedSplits(ret.match[1]) :
       BaseScore(ret.match[1].teamA, ret.match[1].teamB) < BaseScore(o.teamA, o.teamB)

\* the score without the repeat term
PairCounts(teamA, teamB) ==
  10 * PartneredBefore(teamA[1], teamA[2])
  + 10 * PartneredBefore(teamB[1], teamB[2])
  + 5 * ( OpposedBefore(teamA[1], teamB[1]) + OpposedBefore(teamA[1], teamB[2])
          + OpposedBefore(teamA[2], teamB[1]) + OpposedBefore(teamA[2], teamB[2]) )
Scored == [teamA |-> ret.teamA, teamB |-> ret.teamB]

\* C30: the repeat penalty is the same for every split of four players, the
\* split bestAmericanoPairing returns is one with the lowest partner and
\* opponent counts, and the score is unchanged by swapping the teams or the
\* two players of a team.
C30_PenaltySymmetry ==
  ret.op = "scoreAmericanoPairing" =>
    LET history == buildHistory(players, schedule)
        Score(o) == scoreAmericanoPairing(o.teamA, o.teamB, history)
    IN  /\ \A o \in Regroupings(Scored) :
             Score(o) - PairCounts(o.teamA, o.teamB)
               = ret.score - PairCounts(ret.teamA, ret.teamB)
        /\ \A o \in Regroupings(Scored) :
             PairCounts(ret.best.teamA, ret.best.teamB) <= PairCounts(o.teamA, o.teamB)
        /\ \A o \in Regroupings(Scored) :
             {Range(o.teamA), Range(o.teamB)} = {Range(ret.teamA), Range(ret.teamB)}
               => Score(o) = ret.score

\* four players who shared a court before, the splits differing in their counts
C30_Witness ==
  /\ ret.op = "scoreAmericanoPairing"
  /\ ret.score >= 1000
  /\ \E o \in Regroupings(Scored) :
       PairCounts(o.teamA, o.teamB) # PairCounts(ret.teamA, ret.teamB)

\* C23: for the policies without gender constraint the round has
\* min(courts, floor(selected / 4)) matches, on courts 1, 2, ... in order.
C23_MatchPerFullGroup ==
  (IsRoundCall /\ config.algorithm # "mix_americano") =>
    /\ Len(ret.matches) = Min(config.courts, SelectedCount \div 4)
    /\ \A i \in 1..Len(ret.matches) : ret.matches[i].court = i

\* two matches, or one match and a short group dropped
C23_Witness ==
  /\ IsRoundCall
  /\ config.algorithm # "mix_americano"
  /\ Len(ret.matches) = 2
  /\ config.courts = 3

TotalOf(matches) ==
  LET sum[i \in 0..Len(matches)] ==
        IF i = 0 THEN 0
        ELSE sum[i - 1] + PolicyScore(matches[i].teamA, matches[i].teamB)
  IN  sum[Len(matches)]

\* C24: the round kept by the attempt loop of the unconstrained and the skill
\* generator is a complete attempt whose sum of per-court scores is <= the sum
\* of every attempt made in the call, the first of the attempts with the
\* lowest sum.
C24_BestAttemptKept ==
  ret.op = "attempts" =>
    /\ Len(ret.matches) = Min(config.courts, SelectedCount \div 4)
    /\ TotalOf(ret.matches) = ret.totalScore
    /\ \A t \in ret.seen.totals : ret.totalScore <= t
    /\ ret.matches = ret.seen.first

\* attempts with different sums on two courts
C24_Witness ==
  /\ ret.op = "attempts"
  /\ Len(ret.matches) = 2
  /\ Cardinality(ret.seen.totals) >= 2

\* ---------------------------------------------------- one-pass schedules
\* sit-outs of a player in the first k rounds of the returned schedule
SitOutsAfter(id, k) ==
  Cardinality({j \in 1..k : id \in Range(ret.result[j].sittingOut)})

\* C27: under the unconstrained policy, from an empty schedule and a roster
\* with equal gamesPlayed and sitOutCount, after every round of a one-pass
\* schedule the sit-out counts of any two active players differ by at most 1,
\* whatever the number of players (>= 4) and of courts.
C27_SitOutsWithinOne ==
  (IsScheduleCall /\ config.algorithm = "americano"
     /\ CountActive(LAMBDA p : TRUE) >= 4) =>
    \A k \in 1..Len(ret.result) :
      \A a \in ActiveIdSet, b \in ActiveIdSet :
        SitOutsAfter(a, k) - SitOutsAfter(b, k) <= 1

TeamsOf(match) == {Range(match.teamA), Range(match.teamB)}
PartnersIn(a, b) ==
  Cardinality({j \in 1..Len(ret.result) :
                 \E m \in Range(ret.result[j].matches) : {a, b} \in TeamsOf(m)})

\* C28: with four active players on one court under the unconstrained policy,
\* the first three rounds of a one-pass schedule use the three different
\* splits: every player partners each of the others exactly once.
C28_ThreeSplits ==
  (IsScheduleCall /\ config.algorithm = "americano" /\ config.courts = 1
     /\ config.rounds = 3 /\ CountActive(LAMBDA p : TRUE) = 4) =>
    /\ Len(ret.result) = 3
    /\ \A j \in 1..3 : Len(ret.result[j].matches) = 1
    /\ \A j \in 1..3, k \in 1..3 :
         j # k => TeamsOf(ret.result[j].matches[1]) # TeamsOf(ret.result[k].matches[1])
    /\ \A a \in ActiveIdSet, b \in ActiveIdSet : a # b => PartnersIn(a, b) = 1

C28_Witness ==
  /\ IsScheduleCall
  /\ config.algorithm = "americano" /\ config.courts = 1 /\ config.rounds = 3
  /\ CountActive(LAMBDA p : TRUE) = 4
  /\ Len(ret.result) = 3
  /\ ret.result[3].matches # <<>>

====
